---- MODULE Spec2Model ----
(***************************************************************************)
(* Model of the extraction-assessment-retry engine of AgenticOCR           *)
(* (src/ocr_agent.py) together with the OpenAI provider wrapper            *)
(* (src/openai_extractor.py).                                              *)
(*                                                                         *)
(* Conventions                                                             *)
(*  - A Python dict is a TLA+ function whose DOMAIN is its key set; the    *)
(*    iteration order of the dicts the engine iterates (schema, merged     *)
(*    data) is the schema's key order, kept as the sequence SchemaKeys.    *)
(*  - Confidences are floats in the source; the model keeps them as        *)
(*    integers in hundredths (0.6 is 60), which is exact for the values    *)
(*    drawn here.                                                          *)
(*  - A field value is a Python string, written as a TLA+ string; Chars    *)
(*    gives its characters, on which strip() and the regular expressions   *)
(*    are computed.                                                        *)
(***************************************************************************)
EXTENDS Integers, Sequences, FiniteSets, TLC

\* ---------------------------------------------------------------- bounds
\* Largest number of page images of a document.
MaxPages == 2

\* ------------------------------------------------------ program constants
\* AgenticOCR.__init__: max_retry_attempts: int = 3
DefaultMaxRetryAttempts == 3
\* FieldAssessor.__init__: min_confidence_threshold: float = 0.6 (hundredths)
DefaultMinConfidence == 60
\* create_metadata_from_schema_hints: min_confidence=0.6 (hundredths)
MetadataMinConfidence == 60

\* ------------------------------------------------------------- the inputs
\* The schema {"name": "", "amount": ""}, in its key order.
SchemaKeys == <<"name", "amount">>

\* The values a response of the vision model may carry for a key.
ValuesFor(k) == IF k = "name" THEN {"", "Alice"} ELSE {"", "100", "abc"}

\* Further values a caller may hand to the Assessor: a whitespace-only string
\* and an amount with a thousands separator and a fraction.
OtherValues == {" ", "1,234.56"}

AllValues == UNION {ValuesFor(SchemaKeys[i]) : i \in DOMAIN SchemaKeys}
             \cup OtherValues

\* The raw confidence numbers a response may carry (hundredths): below the
\* range, inside it, above it.
RawConfs == {-20, 70, 130}

\* The characters of each value.
Chars(v) ==
    CASE v = ""      -> <<>>
      [] v = "Alice" -> <<"A", "l", "i", "c", "e">>
      [] v = "100"   -> <<"1", "0", "0">>
      [] v = "abc"   -> <<"a", "b", "c">>
      [] v = " "     -> <<" ">>
      [] v = "1,234.56" -> <<"1", ",", "2", "3", "4", ".", "5", "6">>

EmptyDict == [k \in {} |-> 0]

Range(s) == {s[i] : i \in DOMAIN s}

\* dict.get(key, default)
Get(d, k, default) == IF k \in DOMAIN d THEN d[k] ELSE default

\* ------------------------------------------------------- FieldValidator
Whitespace == {" ", "\t", "\n", "\r"}
Digits == {"0", "1", "2", "3", "4", "5", "6", "7", "8", "9"}
\* The glyphs of [€$£], each one character (the euro and pound signs by name).
CurrencyGlyphs == {"EUR", "$", "GBP"}

RECURSIVE lstrip(_)
lstrip(cs) ==
    IF cs # <<>> /\ Head(cs) \in Whitespace THEN lstrip(Tail(cs)) ELSE cs

RECURSIVE rstrip(_)
rstrip(cs) ==
    IF cs # <<>> /\ cs[Len(cs)] \in Whitespace
    THEN rstrip(SubSeq(cs, 1, Len(cs) - 1))
    ELSE cs

\* str.strip()
strip(cs) == rstrip(lstrip(cs))

\* Mutant of IsEmptyString: the string is not stripped.
IsEmptyString_NoStrip(value) == Chars(value) = <<>>

\* FieldValidator.is_empty on a string value (None and lists are not drawn).
IsEmptyString(value) == strip(Chars(value)) = <<>>

\* The same, computed once for every value. (Comparing the table with itself
\* makes TLC evaluate all of it when the definition is first read, before
\* its workers share it.)
EmptyTable ==
    LET table == [v \in AllValues |-> IsEmptyString(v)]
    IN  IF table = table THEN table ELSE table

is_empty(value) == EmptyTable[value]

AllDigits(cs, from, to) ==
    /\ to <= Len(cs)
    /\ \A i \in from..to : cs[i] \in Digits

\* (\.\d{2})?$ from position p (the next unread character).
MatchFraction(cs, p) ==
    \/ p = Len(cs) + 1
    \/ /\ p + 2 = Len(cs)
       /\ cs[p] = "."
       /\ AllDigits(cs, p + 1, p + 2)

\* (,?\d{3})*(\.\d{2})?$ from position p.
RECURSIVE MatchGroups(_, _)
MatchGroups(cs, p) ==
    \/ MatchFraction(cs, p)
    \/ /\ AllDigits(cs, p, p + 2)
       /\ MatchGroups(cs, p + 3)
    \/ /\ p <= Len(cs)
       /\ cs[p] = ","
       /\ AllDigits(cs, p + 1, p + 3)
       /\ MatchGroups(cs, p + 4)

\* \s* from position p: the positions at which the rest may start.
RECURSIVE SkipSpaces(_, _)
SkipSpaces(cs, p) ==
    {p} \cup (IF p <= Len(cs) /\ cs[p] \in Whitespace
              THEN SkipSpaces(cs, p + 1)
              ELSE {})

\* ^[€$£]?\s*\d{1,3}(,?\d{3})*(\.\d{2})?$
MatchCurrency(cs) ==
    \E g \in {1} \cup (IF cs # <<>> /\ cs[1] \in CurrencyGlyphs THEN {2} ELSE {}) :
        \E p \in SkipSpaces(cs, g) :
            \E n \in 1..3 :
                /\ AllDigits(cs, p, p + n - 1)
                /\ MatchGroups(cs, p + n)

\* FieldValidator.validate_currency: TRUE when the value is accepted.
validate_currency(value) ==
    IF is_empty(value) THEN TRUE ELSE MatchCurrency(strip(Chars(value)))

\* FieldValidator.validate_by_type for the two field types of the schema.
validate_by_type(value, field_type) ==
    IF field_type = "currency" THEN validate_currency(value) ELSE TRUE

\* The validation outcome of every value, computed once.
ValidTable ==
    LET table == [t \in {"text", "currency"} |->
                     [v \in AllValues |-> validate_by_type(v, t)]]
    IN  IF table = table THEN table ELSE table

\* --------------------------------------------------------- field metadata
\* create_metadata_from_schema_hints(schema): "amount" is inferred CURRENCY,
\* "name" TEXT; every field gets min_confidence 0.6.
infer_type(field_name) ==
    IF field_name = "amount" THEN "currency"
    ELSE IF field_name = "page_count" THEN "number"
    ELSE "text"

create_metadata_from_schema_hints(keys) ==
    [k \in Range(keys) \ {"doc_type_id"} |->
        [name |-> k,
         field_type |-> infer_type(k),
         required |-> FALSE,
         min_confidence |-> MetadataMinConfidence]]

metadata_map ==
    LET map == create_metadata_from_schema_hints(SchemaKeys)
    IN  IF map = map THEN map ELSE map

\* ---------------------------------------------------------- FieldAssessor
FILLED == "filled"
UNFILLED == "unfilled"
LOW_CONFIDENCE == "low_confidence"
INVALID == "invalid"
NEEDS_REVIEW == "needs_review"

NoMetadata == [name |-> "<none>"]

\* Mutant of assess_field_status: the confidence is checked before the
\* emptiness.
assess_field_status_ConfidenceFirst(value, confidence, metadata) ==
    LET min_conf == IF metadata # [name |-> "<none>"]
                    THEN metadata.min_confidence
                    ELSE DefaultMinConfidence
    IN  IF confidence < min_conf THEN "low_confidence"
        ELSE IF is_empty(value) THEN "unfilled"
        ELSE "filled"

\* Mutant of assess_field_status: a low confidence is reported before the
\* type validation is looked at.
assess_field_status_LowBeatsInvalid(value, confidence, metadata) ==
    LET min_conf == IF metadata # [name |-> "<none>"]
                    THEN metadata.min_confidence
                    ELSE DefaultMinConfidence
    IN  IF is_empty(value) THEN "unfilled"
        ELSE IF confidence < min_conf THEN "low_confidence"
        ELSE IF metadata # [name |-> "<none>"]
                /\ ~ValidTable[metadata.field_type][value]
             THEN "invalid"
        ELSE "filled"

\* Mutant of assess_field_status: the Assessor's default threshold is used
\* even when the metadata carries one.
assess_field_status_DefaultThreshold(value, confidence, metadata) ==
    IF is_empty(value) THEN "unfilled"
    ELSE IF metadata # [name |-> "<none>"]
            /\ ~ValidTable[metadata.field_type][value]
         THEN "invalid"
    ELSE IF confidence < DefaultMinConfidence THEN "low_confidence"
    ELSE "filled"

\* FieldAssessor.assess_field: the status it assigns. metadata is a
\* FieldMetadata or NoMetadata (Python's None).
assess_field_status(value, confidence, metadata) ==
    IF is_empty(value) THEN UNFILLED
    ELSE
      LET min_conf == IF metadata # NoMetadata
                      THEN metadata.min_confidence
                      ELSE DefaultMinConfidence
          \* FieldResult.status defaults to UNFILLED
          checked == IF confidence < min_conf THEN LOW_CONFIDENCE ELSE UNFILLED
      IN  IF metadata # NoMetadata
          THEN IF ~ValidTable[metadata.field_type][value] THEN INVALID
               ELSE IF checked # LOW_CONFIDENCE THEN FILLED
               ELSE checked
          ELSE IF checked # LOW_CONFIDENCE THEN FILLED ELSE checked

\* FieldAssessor.assess_field: the FieldResult.
assess_field(name, value, confidence, metadata) ==
    [name |-> name,
     value |-> value,
     confidence |-> confidence,
     status |-> assess_field_status(value, confidence, metadata)]

\* ExtractionReport(): the dataclass defaults. average_confidence is the
\* quotient num/den of two integers (hundredths over a count).
ExtractionReport ==
    [total_fields |-> 0,
     filled_fields |-> 0,
     unfilled_fields |-> 0,
     low_confidence_fields |-> 0,
     invalid_fields |-> 0,
     needs_review_fields |-> 0,
     average_confidence |-> [num |-> 0, den |-> 1],
     flagged_field_names |-> <<>>,
     field_results |-> EmptyDict]

Bump(n, cond) == IF cond THEN n + 1 ELSE n

\* Mutant of AssessOne: a flagged field is put at the front of the list.
AssessOne_FlagsPrepend(report, field_name, extracted_data, confidence_scores, md_map) ==
    IF field_name \in {"doc_type_id", "page_count"} THEN report
    ELSE
      LET fr == assess_field(field_name, extracted_data[field_name],
                             Get(confidence_scores, field_name, 0),
                             Get(md_map, field_name, [name |-> "<none>"]))
      IN  [report EXCEPT
             !.field_results = [k \in DOMAIN @ \cup {field_name} |->
                                   IF k = field_name THEN fr ELSE @[k]],
             !.total_fields = @ + 1,
             !.filled_fields = IF fr.status = "filled" THEN @ + 1 ELSE @,
             !.unfilled_fields = IF fr.status = "unfilled" THEN @ + 1 ELSE @,
             !.low_confidence_fields =
                 IF fr.status = "low_confidence" THEN @ + 1 ELSE @,
             !.invalid_fields = IF fr.status = "invalid" THEN @ + 1 ELSE @,
             !.flagged_field_names =
                 IF fr.status # "filled" THEN <<field_name>> \o @ ELSE @]

\* One iteration of the loop of assess_extraction over extracted_data.
AssessOne(report, field_name, extracted_data, confidence_scores, md_map) ==
    IF field_name \in {"doc_type_id", "page_count"} THEN report
    ELSE
      LET confidence == Get(confidence_scores, field_name, 0)
          metadata == Get(md_map, field_name, NoMetadata)
          fr == assess_field(field_name, extracted_data[field_name],
                             confidence, metadata)
      IN  [report EXCEPT
             !.field_results = [k \in DOMAIN @ \cup {field_name} |->
                                   IF k = field_name THEN fr ELSE @[k]],
             !.total_fields = @ + 1,
             !.filled_fields = Bump(@, fr.status = FILLED),
             !.unfilled_fields = Bump(@, fr.status = UNFILLED),
             !.low_confidence_fields = Bump(@, fr.status = LOW_CONFIDENCE),
             !.invalid_fields = Bump(@, fr.status = INVALID),
             !.needs_review_fields = Bump(@, fr.status = NEEDS_REVIEW),
             !.flagged_field_names =
                 IF fr.status # FILLED THEN Append(@, field_name) ELSE @]

RECURSIVE AssessLoop(_, _, _, _, _, _)
AssessLoop(report, keys, i, extracted_data, confidence_scores, md_map) ==
    IF i > Len(keys) THEN report
    ELSE AssessLoop(
             AssessOne(report, keys[i], extracted_data, confidence_scores, md_map),
             keys, i + 1, extracted_data, confidence_scores, md_map)

RECURSIVE SumConfidence(_, _)
SumConfidence(field_results, ks) ==
    IF ks = {} THEN 0
    ELSE LET k == CHOOSE x \in ks : TRUE
         IN  field_results[k].confidence + SumConfidence(field_results, ks \ {k})

\* Mutant of assess_extraction: the sum of the confidences is not divided by
\* the number of fields.
assess_extraction_SumNotDivided(keys, extracted_data, confidence_scores, md_map) ==
    LET report == AssessLoop(ExtractionReport, keys, 1, extracted_data,
                             confidence_scores, md_map)
    IN  IF report.total_fields > 0
        THEN [report EXCEPT !.average_confidence =
                 [num |-> SumConfidence(report.field_results,
                                        DOMAIN report.field_results),
                  den |-> 1]]
        ELSE report

\* FieldAssessor.assess_extraction. keys is the iteration order of
\* extracted_data.
assess_extraction(keys, extracted_data, confidence_scores, md_map) ==
    LET report == AssessLoop(ExtractionReport, keys, 1, extracted_data,
                             confidence_scores, md_map)
    IN  IF report.total_fields > 0
        THEN [report EXCEPT !.average_confidence =
                 [num |-> SumConfidence(report.field_results,
                                        DOMAIN report.field_results),
                  den |-> report.total_fields]]
        ELSE report

\* ExtractionReport.completion_rate, in hundredths of a percent.
completion_rate(report) ==
    IF report.total_fields = 0 THEN 0
    ELSE (report.filled_fields * 10000) \div report.total_fields

\* Exact fractions num/den, den > 0, for the float arithmetic of
\* quality_score (the rounding of the floats is not modelled).
Rat(n, d) == [num |-> n, den |-> d]

RECURSIVE GCD(_, _)
GCD(a, b) == IF b = 0 THEN a ELSE GCD(b, a % b)

\* The fraction in lowest terms (n >= 0, d > 0).
Lowest(n, d) == Rat(n \div GCD(n, d), d \div GCD(n, d))

RatAdd(a, b) == Lowest(a.num * b.den + b.num * a.den, a.den * b.den)
\* a * (n / d)
RatTimes(a, n, d) == Lowest(a.num * n, a.den * d)

\* Mutant of quality_score: the weights of the filled ratio and of the
\* average confidence are swapped.
quality_score_SwappedWeights(report) ==
    IF report.total_fields = 0 THEN Rat(0, 1)
    ELSE RatAdd(RatAdd(RatTimes(Rat(report.filled_fields * 100,
                                    report.total_fields), 3, 10),
                       RatTimes(report.average_confidence, 5, 10)),
                RatTimes(Rat((report.total_fields - report.invalid_fields) * 100,
                             report.total_fields), 2, 10))

\* ExtractionReport.quality_score, as a fraction. average_confidence is kept
\* in hundredths, so average_confidence * 100 is its num/den.
quality_score(report) ==
    IF report.total_fields = 0 THEN Rat(0, 1)
    ELSE
      LET filled_score == Rat(report.filled_fields * 100, report.total_fields)
          confidence_score == Rat(report.average_confidence.num,
                                  report.average_confidence.den)
          validation_score ==
              Rat((report.total_fields - report.invalid_fields) * 100,
                  report.total_fields)
      IN  RatAdd(RatAdd(RatTimes(filled_score, 5, 10),
                        RatTimes(confidence_score, 3, 10)),
                 RatTimes(validation_score, 2, 10))

\* ------------------------------------------------- OpenAIVisionExtractor
\* The "fields" objects a response may hold: a value for some of the keys.
FieldDicts(ks) ==
    UNION {{d \in [S -> AllValues] : \A k \in S : d[k] \in ValuesFor(k)} :
              S \in SUBSET ks}

\* The "confidence_scores" objects a response may hold: a number for some of
\* the keys.
ConfidenceDicts(ks) == UNION {[S -> RawConfs] : S \in SUBSET ks}

\* What one call of the vision model may do for a schema with keys ks: raise
\* (network or API error, or text that is not JSON), or answer a JSON object
\* with "fields" and "confidence_scores", either of which may omit keys.
ResponsesOver(ks) ==
    {[ok |-> FALSE, fields |-> EmptyDict, confidence_scores |-> EmptyDict]}
    \cup
    {[ok |-> TRUE, fields |-> f, confidence_scores |-> c] :
        f \in FieldDicts(ks), c \in ConfidenceDicts(ks)}

\* The same, computed once for every schema subset.
ResponseTable ==
    LET table == [ks \in SUBSET Range(SchemaKeys) |-> ResponsesOver(ks)]
    IN  IF table = table THEN table ELSE table

Responses(ks) == ResponseTable[ks]

Max(a, b) == IF a >= b THEN a ELSE b
Min(a, b) == IF a <= b THEN a ELSE b

\* Mutant of Clamp: the confidence is passed on as the model gave it.
Clamp_Off(v) == v

\* max(0.0, min(1.0, float(v)))
Clamp(v) == Max(0, Min(100, v))

\* Mutant of empty_results: a failed call gives two empty dicts.
empty_results_NoKeys(keys) == [values |-> EmptyDict, confidences |-> EmptyDict]

\* OpenAIVisionExtractor._empty_results(schema): every schema field is a
\* string field here, so every default is "".
empty_results(keys) ==
    [values |-> [k \in Range(keys) |-> ""],
     confidences |-> [k \in Range(keys) |-> 0]]

\* OpenAIVisionExtractor.extract_fields_from_image on the response resp of
\* the model: back-fills the schema keys, clamps the confidences; a raised
\* call gives _empty_results(schema).
extract_fields_from_image(resp, keys) ==
    IF ~resp.ok THEN empty_results(keys)
    ELSE
      LET extracted_values ==
              [k \in DOMAIN resp.fields \cup Range(keys) |->
                  IF k \in DOMAIN resp.fields THEN resp.fields[k] ELSE ""]
          confidence_scores ==
              [k \in DOMAIN resp.confidence_scores \cup Range(keys) |->
                  IF k \in DOMAIN resp.confidence_scores
                  THEN resp.confidence_scores[k]
                  ELSE 0]
      IN  [values |-> extracted_values,
           confidences |-> [k \in DOMAIN confidence_scores |->
                               Clamp(confidence_scores[k])]]

\* -------------------------------------------------------------- AgenticOCR
\* Mutant of MergeOneExtraction: a later non-empty value replaces an
\* earlier one.
MergeOneExtraction_LastWins(merged, extraction) ==
    [key \in DOMAIN merged |->
        IF key \in DOMAIN extraction /\ ~is_empty(extraction[key])
        THEN extraction[key]
        ELSE merged[key]]

\* Mutant of MergeOneExtraction: a key the schema does not have is taken
\* over too.
MergeOneExtraction_AnyKey(merged, extraction) ==
    [key \in DOMAIN merged \cup DOMAIN extraction |->
        IF key \notin DOMAIN merged THEN extraction[key]
        ELSE IF /\ key \in DOMAIN extraction
                /\ is_empty(merged[key])
                /\ ~is_empty(extraction[key])
             THEN extraction[key]
        ELSE merged[key]]

\* One iteration of the outer loop of _merge_extractions.
MergeOneExtraction(merged, extraction) ==
    [key \in DOMAIN merged |->
        IF /\ key \in DOMAIN extraction
           /\ is_empty(merged[key])
           /\ ~is_empty(extraction[key])
        THEN extraction[key]
        ELSE merged[key]]

RECURSIVE MergeExtractionsFrom(_, _, _)
MergeExtractionsFrom(merged, extractions, i) ==
    IF i > Len(extractions) THEN merged
    ELSE MergeExtractionsFrom(MergeOneExtraction(merged, extractions[i]),
                              extractions, i + 1)

\* AgenticOCR._merge_extractions(extractions, schema)
merge_extractions(extractions, keys) ==
    MergeExtractionsFrom([k \in Range(keys) |-> ""], extractions, 1)

\* Mutant of MergeOneConfidences: the first confidence seen is kept.
MergeOneConfidences_FirstWins(merged, confidences) ==
    [key \in DOMAIN merged \cup DOMAIN confidences |->
        IF key \notin DOMAIN merged THEN confidences[key] ELSE merged[key]]

\* One iteration of the outer loop of _merge_confidences.
MergeOneConfidences(merged, confidences) ==
    [key \in DOMAIN merged \cup DOMAIN confidences |->
        IF key \in DOMAIN confidences
           /\ (key \notin DOMAIN merged \/ confidences[key] > merged[key])
        THEN confidences[key]
        ELSE merged[key]]

RECURSIVE MergeConfidencesFrom(_, _, _)
MergeConfidencesFrom(merged, all_confs, i) ==
    IF i > Len(all_confs) THEN merged
    ELSE MergeConfidencesFrom(MergeOneConfidences(merged, all_confs[i]),
                              all_confs, i + 1)

\* AgenticOCR._merge_confidences(all_confidences)
merge_confidences(all_confs) == MergeConfidencesFrom(EmptyDict, all_confs, 1)

\* The subsequence of keys whose elements satisfy keep.
RECURSIVE FilterKeys(_, _)
FilterKeys(keys, keep) ==
    IF keys = <<>> THEN <<>>
    ELSE IF Head(keys) \in keep
         THEN <<Head(keys)>> \o FilterKeys(Tail(keys), keep)
         ELSE FilterKeys(Tail(keys), keep)

\* Mutant of focused_schema_of: the retry call is sent the whole schema.
focused_schema_of_WholeSchema(keys, flagged) == keys

\* focused_schema = {k: v for k, v in schema.items() if k in flagged_fields}
focused_schema_of(keys, flagged) == FilterKeys(keys, Range(flagged))

\* What a call extractor.extract_fields_from_image(image, schema) may return
\* for the schema with keys `keys`, with whether the model call raised: the
\* image of the model's possible responses under extract_fields_from_image.
CallOutcomes(keys) ==
    {[failed |-> ~resp.ok,
      values |-> extract_fields_from_image(resp, keys).values,
      confidences |-> extract_fields_from_image(resp, keys).confidences] :
        resp \in Responses(Range(keys))}

\* The same, computed once for every schema subset.
OutcomeTable ==
    LET table == [ks \in SUBSET Range(SchemaKeys) |->
                     CallOutcomes(FilterKeys(SchemaKeys, ks))]
    IN  IF table = table THEN table ELSE table

\* Mutant of IsBetter: any non-empty value is accepted.
IsBetter_AnyNonEmpty(new_value, new_conf, old_conf) == ~is_empty(new_value)

\* Mutant of IsBetter: an equal confidence is accepted too.
IsBetter_NotStrict(new_value, new_conf, old_conf) ==
    ~is_empty(new_value) /\ new_conf >= old_conf

\* The test "new extraction is better" of _retry_flagged_fields.
IsBetter(new_value, new_conf, old_conf) ==
    ~is_empty(new_value) /\ new_conf > old_conf

\* The update loop of one attempt of _retry_flagged_fields: the data and the
\* confidences after it.
RetryUpdate(data, confs, flagged, extracted, confidences) ==
    LET accepted(f) ==
            /\ f \in Range(flagged)
            /\ f \in DOMAIN extracted
            /\ IsBetter(extracted[f], Get(confidences, f, 0), Get(confs, f, 0))
        touched == {f \in Range(flagged) : accepted(f)}
    IN  [data |-> [f \in DOMAIN data \cup touched |->
                      IF f \in touched THEN extracted[f] ELSE data[f]],
         confidences |-> [f \in DOMAIN confs \cup touched |->
                      IF f \in touched THEN Get(confidences, f, 0) ELSE confs[f]]]

\* ------------------------------------------------------------ the state
VARIABLES
    pages,               \* len(pages): the number of page images
    max_retry_attempts,  \* AgenticOCR.max_retry_attempts
    pc,                  \* where extract_document is
    all_extractions,     \* extract_document: one dict of values per page
    all_confidences,     \* extract_document: one dict of confidences per page
    merged_data,         \* merged_data, and current_data of the retry
    merged_confidences,  \* merged_confidences, and current_confidences
    report,              \* the latest ExtractionReport
    flagged_fields,      \* the argument flagged_fields of _retry_flagged_fields
    attempt,             \* the loop variable of _retry_flagged_fields
    focused_schema,      \* the keys of the schema of the latest retry call
    retry_image,         \* the page (from 1) sent by the latest retry call
    extracted,           \* the values the latest retry call returned
    confidences,         \* the confidences the latest retry call returned
    call_failed,         \* history: per page, whether the model call raised
    initial_calls,       \* history: calls of the initial pass
    retry_calls,         \* history: calls of the retry passes
    all_failed,          \* history: every call so far raised
    pipeline,            \* run_agentic_pipeline: its inputs and where it is
    call                 \* one call of a function of the engine: its
                         \* arguments and, once it returned, its result

vars == <<pages, max_retry_attempts, pc, all_extractions, all_confidences,
          merged_data, merged_confidences, report, flagged_fields, attempt,
          focused_schema, retry_image, extracted, confidences, call_failed,
          initial_calls, retry_calls, all_failed, pipeline, call>>

\* What extract_document does not touch: the caller's state and the separate
\* calls of the engine's functions.
outer == <<pipeline, call>>
NoPipeline == [pc |-> "none"]
NoCall == [op |-> "none"]

config == <<pages, max_retry_attempts>>
pass1 == <<all_extractions, all_confidences, call_failed>>
merged == <<merged_data, merged_confidences>>
retry_locals == <<focused_schema, retry_image, extracted, confidences>>
counters == <<initial_calls, retry_calls, all_failed>>

Init ==
    /\ pages \in 0..MaxPages
    /\ max_retry_attempts \in 1..DefaultMaxRetryAttempts
    /\ pc = "extract"
    /\ all_extractions = <<>>
    /\ all_confidences = <<>>
    /\ merged_data = EmptyDict
    /\ merged_confidences = EmptyDict
    /\ report = ExtractionReport
    /\ flagged_fields = <<>>
    /\ attempt = 0
    /\ focused_schema = <<>>
    /\ retry_image = 0
    /\ extracted = EmptyDict
    /\ confidences = EmptyDict
    /\ call_failed = <<>>
    /\ initial_calls = 0
    /\ retry_calls = 0
    /\ all_failed = TRUE
    /\ pipeline = NoPipeline
    /\ call = NoCall

\* extract_document, one iteration of the loop over the pages: the next page
\* is sent with the full schema and its result is appended. After the last
\* page the loop is left and the per-page results are merged.
ExtractPageFrom(outcomes) ==
    /\ pc = "extract"
    /\ Len(all_extractions) < pages
    /\ \E r \in outcomes :
          /\ all_extractions' = Append(all_extractions, r.values)
          /\ all_confidences' = Append(all_confidences, r.confidences)
          /\ call_failed' = Append(call_failed, r.failed)
          /\ all_failed' = (all_failed /\ r.failed)
    /\ initial_calls' = initial_calls + 1
    /\ IF Len(all_extractions') = pages
       THEN /\ merged_data' = merge_extractions(all_extractions', SchemaKeys)
            /\ merged_confidences' = merge_confidences(all_confidences')
            /\ pc' = "merged"
       ELSE UNCHANGED <<pc, merged>>
    /\ UNCHANGED <<outer, config, report, flagged_fields, attempt, retry_locals,
                   retry_calls>>

\* The same, with everything a call may return.
ExtractPage == ExtractPageFrom(OutcomeTable[Range(SchemaKeys)])

\* extract_document for an empty list of pages: the loop body never runs and
\* the merge is over no page.
MergeNoPages ==
    /\ pc = "extract"
    /\ pages = 0
    /\ merged_data' = merge_extractions(all_extractions, SchemaKeys)
    /\ merged_confidences' = merge_confidences(all_confidences)
    /\ pc' = "merged"
    /\ UNCHANGED <<outer, config, pass1, report, flagged_fields, attempt,
                   retry_locals, counters>>

\* extract_document, pass 2: the merged result is assessed. The per-page
\* results are not read after the merge; the model forgets them here.
AssessMerged ==
    /\ pc = "merged"
    /\ report' = assess_extraction(SchemaKeys, merged_data, merged_confidences,
                                   metadata_map)
    /\ all_extractions' = <<>>
    /\ all_confidences' = <<>>
    /\ call_failed' = <<>>
    /\ pc' = "assessed"
    /\ UNCHANGED <<outer, config, merged, flagged_fields, attempt, retry_locals,
                   counters>>

\* Mutant of RetryWanted: the retry pass is entered whether or not a field
\* is flagged.
RetryWanted_IgnoresFlags == max_retry_attempts > 1

\* The test that guards pass 3.
RetryWanted == report.flagged_field_names # <<>> /\ max_retry_attempts > 1

\* extract_document, pass 3: _retry_flagged_fields is called with the
\* flagged fields of the report; its loop starts at attempt 2.
EnterRetry ==
    /\ pc = "assessed"
    /\ RetryWanted
    /\ flagged_fields' = report.flagged_field_names
    /\ attempt' = 2
    /\ pc' = "retry"
    /\ UNCHANGED <<outer, config, pass1, merged, report, retry_locals, counters>>

\* extract_document: nothing is flagged or no retry is configured; the
\* result is returned with the report of pass 2.
ReturnWithoutRetry ==
    /\ pc = "assessed"
    /\ ~RetryWanted
    /\ pc' = "done"
    /\ UNCHANGED <<outer, config, pass1, merged, report, flagged_fields, attempt,
                   retry_locals, counters>>

\* Mutant of LoopContinues: the loop runs one attempt too many.
LoopContinues_OneMore == attempt <= max_retry_attempts + 1

\* for attempt in range(2, self.max_retry_attempts + 1): the loop goes on.
LoopContinues == attempt <= max_retry_attempts

\* _retry_flagged_fields, one iteration of its loop with at least one page:
\* the focused schema is built, the first page is sent with it, and the
\* better results replace the stored ones.
RetryAttempt ==
    /\ pc = "retry"
    /\ LoopContinues
    /\ pages > 0
    /\ LET fs == focused_schema_of(SchemaKeys, flagged_fields)
       IN  IF fs = <<>>
           THEN /\ pc' = "break"
                /\ UNCHANGED <<merged, attempt, retry_locals, counters>>
           ELSE \E r \in OutcomeTable[Range(fs)] :
                  LET u == RetryUpdate(merged_data, merged_confidences,
                                       flagged_fields, r.values, r.confidences)
                  IN  /\ focused_schema' = fs
                      /\ retry_image' = 1
                      /\ extracted' = r.values
                      /\ confidences' = r.confidences
                      /\ merged_data' = u.data
                      /\ merged_confidences' = u.confidences
                      /\ retry_calls' = retry_calls + 1
                      /\ all_failed' = (all_failed /\ r.failed)
                      /\ initial_calls' = initial_calls
                      /\ attempt' = attempt + 1
                      /\ pc' = "retry"
    /\ UNCHANGED <<outer, config, pass1, report, flagged_fields>>

\* _retry_flagged_fields, an iteration of its loop for an empty list of
\* pages: pages[0] raises IndexError, which nothing catches.
RetryWithoutPages ==
    /\ pc = "retry"
    /\ LoopContinues
    /\ pages = 0
    /\ focused_schema_of(SchemaKeys, flagged_fields) # <<>>
    /\ pc' = "raised"
    /\ UNCHANGED <<outer, config, pass1, merged, report, flagged_fields, attempt,
                   retry_locals, counters>>

\* Mutant of ReassessAndReturn: the result is returned with the report of
\* pass 2.
ReassessAndReturn_KeepsReport ==
    /\ pc \in {"retry", "break"}
    /\ pc = "retry" => ~LoopContinues
    /\ pc' = "done"
    /\ UNCHANGED <<outer, config, pass1, merged, report, flagged_fields, attempt,
                   retry_locals, counters>>

\* The loop of _retry_flagged_fields is over; extract_document assesses the
\* data it returned and returns the result.
ReassessAndReturn ==
    /\ pc \in {"retry", "break"}
    /\ pc = "retry" => ~LoopContinues
    /\ report' = assess_extraction(SchemaKeys, merged_data, merged_confidences,
                                   metadata_map)
    /\ pc' = "done"
    /\ UNCHANGED <<outer, config, pass1, merged, flagged_fields, attempt,
                   retry_locals, counters>>

Next ==
    \/ ExtractPage
    \/ MergeNoPages
    \/ AssessMerged
    \/ EnterRetry
    \/ ReturnWithoutRetry
    \/ RetryAttempt
    \/ RetryWithoutPages
    \/ ReassessAndReturn

Spec == Init /\ [][Next]_vars

\* ============================================================== properties
Fields == Range(SchemaKeys)

\* The status the Assessor gives the stored value and confidence of field f.
CurrentStatus(f) ==
    assess_field_status(merged_data[f], Get(merged_confidences, f, 0),
                        Get(metadata_map, f, NoMetadata))

\* The fields the Assessor would flag in the stored data, as a set.
CurrentFlagged == {f \in DOMAIN merged_data : CurrentStatus(f) # FILLED}

\* A step that is one retry call of _retry_flagged_fields.
IsRetryCall == pc = "retry" /\ retry_calls' = retry_calls + 1

\* C1: in every retry attempt, for every flagged field, the stored value and
\* confidence become the retry's exactly when the retry's value is non-empty
\* and its confidence is strictly greater than the stored confidence; in
\* every other case both stay as they were.
C1_RetryAcceptsOnlyStrictlyBetter ==
    [][IsRetryCall =>
        \A f \in Range(flagged_fields) :
            IF /\ f \in DOMAIN extracted'
               /\ ~is_empty(extracted'[f])
               /\ Get(confidences', f, 0) > Get(merged_confidences, f, 0)
            THEN /\ merged_data'[f] = extracted'[f]
                 /\ merged_confidences'[f] = confidences'[f]
            ELSE /\ merged_data'[f] = merged_data[f]
                 /\ Get(merged_confidences', f, 0) = Get(merged_confidences, f, 0)
                 /\ (f \in DOMAIN merged_confidences') = (f \in DOMAIN merged_confidences)
      ]_vars

\* C1 witness: after the first retry attempt one flagged field holds the
\* retry's value with a confidence above the one first assessed, and another
\* flagged field kept its value although the retry returned a different
\* non-empty one with a confidence not above the stored one.
C1_Witness ==
    /\ pc = "retry"
    /\ retry_calls = 1
    /\ \E f, g \in Range(flagged_fields) :
          /\ f # g
          /\ merged_data[f] = extracted[f]
          /\ merged_data[f] # report.field_results[f].value
          /\ merged_confidences[f] = confidences[f]
          /\ merged_confidences[f] > report.field_results[f].confidence
          /\ ~is_empty(extracted[g])
          /\ extracted[g] # merged_data[g]
          /\ confidences[g] <= merged_confidences[g]
          /\ merged_data[g] = report.field_results[g].value

\* The pages whose value for field f is not empty.
PagesWith(f) ==
    {p \in DOMAIN all_extractions :
        f \in DOMAIN all_extractions[p] /\ all_extractions[p][f] # ""}

\* The smallest element of a non-empty set of numbers.
Least(S) == CHOOSE x \in S : \A y \in S : x <= y

\* C2: the merged value of every schema field is the value of the
\* lowest-indexed page whose value for it is non-empty, or the empty default
\* when no page has one, whatever the confidences.
C2_FirstNonEmptyPageWins ==
    pc = "merged" =>
        /\ DOMAIN merged_data = Fields
        /\ \A f \in Fields :
              merged_data[f] =
                  IF PagesWith(f) = {} THEN ""
                  ELSE all_extractions[Least(PagesWith(f))][f]

\* C2 witness: two pages give different non-empty values for a field, the
\* later one with the higher confidence, and the merge kept the earlier one.
C2_Witness ==
    /\ pc = "merged"
    /\ pages = 2
    /\ \E f \in Fields :
          /\ all_extractions[1][f] # ""
          /\ all_extractions[2][f] # ""
          /\ all_extractions[2][f] # all_extractions[1][f]
          /\ all_confidences[2][f] > all_confidences[1][f]
          /\ merged_data[f] = all_extractions[1][f]

\* C3: the merged confidence of every field is the greatest confidence any
\* page reported for it, whichever page supplied the merged value.
C3_MergedConfidenceIsMaximum ==
    (pc = "merged" /\ pages > 0) =>
        \A f \in Fields :
            /\ f \in DOMAIN merged_confidences
            /\ \E p \in DOMAIN all_confidences :
                  merged_confidences[f] = all_confidences[p][f]
            /\ \A p \in DOMAIN all_confidences :
                  merged_confidences[f] >= all_confidences[p][f]

\* C3 witness: the merged value of a field comes from page 1 while its merged
\* confidence is the strictly greater one of page 2, whose value was empty.
C3_Witness ==
    /\ pc = "merged"
    /\ pages = 2
    /\ \E f \in Fields :
          /\ all_extractions[1][f] # ""
          /\ all_extractions[2][f] = ""
          /\ all_confidences[2][f] > all_confidences[1][f]
          /\ merged_data[f] = all_extractions[1][f]
          /\ merged_confidences[f] = all_confidences[2][f]

\* extract_document has passed its first assessment and has not returned.
InRetryPhase == pc \in {"assessed", "retry", "break"}

\* C4: once the stored value and confidence of a field are classified FILLED
\* after a pass, no later pass of the run changes the field: it keeps its
\* value and stays FILLED.
C4_FilledIsFrozen ==
    [][InRetryPhase =>
        \A f \in Fields :
            CurrentStatus(f) = FILLED =>
                /\ merged_data'[f] = merged_data[f]
                /\ CurrentStatus(f)' = FILLED
      ]_vars

\* C5: the schema sent on every retry call holds exactly the fields that the
\* Assessor flags in the data as it is stored when the call is issued (after
\* the previous attempt).
C5_RetrySendsStillFlagged ==
    [][IsRetryCall => Range(focused_schema') = CurrentFlagged]_vars

\* C6: once the stored data would be assessed with no flagged field, no
\* further Provider call is issued in the run.
C6_StopsWhenNothingFlagged ==
    [][(InRetryPhase /\ CurrentFlagged = {}) =>
          /\ retry_calls' = retry_calls
          /\ initial_calls' = initial_calls
      ]_vars

PhaseRank ==
    CASE pc = "extract"  -> 0
      [] pc = "merged"   -> 1
      [] pc = "assessed" -> 2
      [] pc = "retry"    -> 3
      [] pc = "break"    -> 4
      [] pc = "done"     -> 5
      [] pc = "raised"   -> 5

\* The progress measure of a run: it grows with every step and is bounded.
Progress == PhaseRank + initial_calls + retry_calls

C7_CallBudget ==
    /\ initial_calls <= pages
    /\ pc # "extract" => initial_calls = pages
    /\ retry_calls <= Max(max_retry_attempts - 1, 0)
    /\ max_retry_attempts <= 1 => retry_calls = 0
    /\ Progress <= 5 + pages + Max(max_retry_attempts - 1, 0)

\* C7: extract_document always terminates (every step raises a measure that
\* is bounded by 5 + N + (M-1), so no run goes on for ever); it issues
\* exactly N initial calls, then at most M-1 retry calls, each of them only
\* after the N initial calls, with M > 1 and a first assessment that flagged
\* a field.
C7_TerminatesWithinCallBudget ==
    /\ []C7_CallBudget
    /\ [][/\ Progress' > Progress
          /\ retry_calls' > retry_calls =>
                /\ initial_calls = pages
                /\ max_retry_attempts > 1
                /\ report.flagged_field_names # <<>>
         ]_vars

\* C7 witness: a run of two pages with M = 3 has returned after two initial
\* and two retry calls.
C7_Witness ==
    /\ pc = "done"
    /\ pages = 2
    /\ max_retry_attempts = 3
    /\ initial_calls = 2
    /\ retry_calls = 2

\* The pages whose call did not raise and whose value for f is not empty.
GoodPagesWith(f) == {p \in PagesWith(f) : ~call_failed[p]}

C9_AllCallsFailedStillReports ==
    (all_failed /\ pages > 0) =>
        /\ pc # "raised"
        /\ pc = "done" =>
              /\ DOMAIN report.field_results = Fields
              /\ \A f \in Fields : report.field_results[f].status = UNFILLED
              /\ report.total_fields = Len(SchemaKeys)
              /\ report.unfilled_fields = report.total_fields
              /\ report.filled_fields = 0
              /\ completion_rate(report) = 0

\* C9 witness: a run of two pages in which the two initial calls and two
\* retry calls all raised has returned.
C9_Witness ==
    /\ pc = "done"
    /\ all_failed
    /\ pages = 2
    /\ initial_calls = 2
    /\ retry_calls = 2
    /\ report.unfilled_fields = 2

\* C10: extract_document never raises, whatever the page list (the empty
\* one included) and whatever the Provider returns.
C10_NeverRaises == pc # "raised"

\* A confidence in [0, 1], in hundredths.
InUnitRange(c) == c \in 0..100

HasReport == pc \in {"assessed", "retry", "break", "done", "raised"}

\* C19: for every report extract_document builds and returns, whatever the
\* vision model returned, quality_score and completion_rate lie in
\* [0, 100] and average_confidence lies in [0, 1].
C19_ScoresWithinRange ==
    HasReport =>
        LET q == quality_score(report)
            a == report.average_confidence
        IN  /\ q.den > 0
            /\ 0 <= q.num
            /\ q.num <= 100 * q.den
            /\ 0 <= completion_rate(report)
            /\ completion_rate(report) <= 10000
            /\ a.den > 0
            /\ 0 <= a.num
            /\ a.num <= 100 * a.den

\* C19 witness: extract_document returned a report with one FILLED and one
\* INVALID field whose two confidences were both clamped to 1.0: the average
\* confidence is 1.0, the completion rate 50 and the quality score 65.
C19_Witness ==
    /\ pc = "done"
    /\ report.filled_fields = 1
    /\ report.invalid_fields = 1
    /\ report.average_confidence = [num |-> 200, den |-> 2]
    /\ completion_rate(report) = 5000
    /\ quality_score(report) = Rat(65, 1)

\* The fields the report in hand gives the status FILLED. Until the run
\* returns, the report is the one of the initial assessment.
FilledInReport ==
    {f \in DOMAIN report.field_results : report.field_results[f].status = FILLED}

\* The run returns after its retry passes.
ReturnsAfterRetry == pc \in {"retry", "break"} /\ pc' = "done"

\* C22: every retry call sends the first page with a schema whose keys are
\* all in the flagged list of the report; a field that the initial
\* assessment found FILLED is in no retry call, and its stored value and
\* confidence stay those of the initial merge up to and including the
\* returned result and its report.
C22_RetryLeavesFilledFieldsAlone ==
    /\ [](InRetryPhase =>
            \A f \in FilledInReport :
                /\ f \notin Range(flagged_fields)
                /\ f \notin Range(focused_schema)
                /\ merged_data[f] = report.field_results[f].value
                /\ Get(merged_confidences, f, 0) =
                       report.field_results[f].confidence)
    /\ [][IsRetryCall =>
            /\ retry_image' = 1
            /\ focused_schema' # <<>>
            /\ Range(focused_schema') \subseteq Range(report.flagged_field_names)
            /\ Range(focused_schema') \cap FilledInReport = {}
         ]_vars
    /\ [][ReturnsAfterRetry =>
            /\ merged_data' = merged_data
            /\ merged_confidences' = merged_confidences
            /\ \A f \in FilledInReport :
                  /\ report'.field_results[f].value = merged_data[f]
                  /\ report'.field_results[f].confidence =
                         report.field_results[f].confidence
                  /\ report'.field_results[f].status = FILLED
         ]_vars

\* C22 witness: of two fields one was FILLED by the initial assessment and
\* the other flagged; two retry calls sent the first page with the flagged
\* field alone, the second was accepted, and the FILLED field is as it was.
C22_Witness ==
    /\ pc = "retry"
    /\ pages = 2
    /\ retry_calls = 2
    /\ retry_image = 1
    /\ \E f, g \in Fields :
          /\ FilledInReport = {f}
          /\ focused_schema = <<g>>
          /\ merged_data[g] = extracted[g]
          /\ merged_data[g] # report.field_results[g].value
          /\ merged_data[f] = report.field_results[f].value
          /\ merged_confidences[f] = report.field_results[f].confidence

\* The fields of the stored data with status st, and the flagged ones in
\* schema order.
FieldsWithStatus(st) == {f \in DOMAIN merged_data : CurrentStatus(f) = st}
FlaggedInOrder == FilterKeys(SchemaKeys, CurrentFlagged)

\* C23: the report extract_document returns is the assessment of the data it
\* returns: each field detail carries the returned value and confidence (0.0
\* where confidence_scores has no entry, as the Assessor reads it), and the
\* counts, the flagged list, completion_rate and quality_score are those of
\* the returned data, also after retries changed it.
C23_ReturnedReportIsFresh ==
    pc = "done" =>
        /\ DOMAIN report.field_results = DOMAIN merged_data
        /\ \A f \in DOMAIN report.field_results :
              /\ report.field_results[f].value = merged_data[f]
              /\ report.field_results[f].confidence =
                     Get(merged_confidences, f, 0)
              /\ report.field_results[f].status = CurrentStatus(f)
        /\ report.total_fields = Cardinality(DOMAIN merged_data)
        /\ report.filled_fields = Cardinality(FieldsWithStatus(FILLED))
        /\ report.unfilled_fields = Cardinality(FieldsWithStatus(UNFILLED))
        /\ report.low_confidence_fields =
               Cardinality(FieldsWithStatus(LOW_CONFIDENCE))
        /\ report.invalid_fields = Cardinality(FieldsWithStatus(INVALID))
        /\ report.flagged_field_names = FlaggedInOrder
        /\ LET fresh == assess_extraction(SchemaKeys, merged_data,
                                          merged_confidences, metadata_map)
           IN  /\ report = fresh
               /\ completion_rate(report) = completion_rate(fresh)
               /\ quality_score(report) = quality_score(fresh)

\* C23 witness: the run returned after a retry call that filled a field the
\* initial assessment had flagged; the report shows the field FILLED with
\* the retry's value and nothing flagged.
C23_Witness ==
    /\ pc = "done"
    /\ retry_calls = 1
    /\ \E g \in Range(flagged_fields) :
          /\ focused_schema = <<g>>
          /\ ~is_empty(extracted[g])
          /\ merged_data[g] = extracted[g]
          /\ report.field_results[g].value = extracted[g]
          /\ report.field_results[g].status = FILLED
    /\ report.flagged_field_names = <<>>
    /\ report.filled_fields = 2

\* a >= b for fractions with positive denominators.
RatGeq(a, b) == a.num * b.den >= b.num * a.den

\* C25: in every step of the retry passes no field's stored confidence
\* decreases and no non-empty stored value becomes empty; and the report
\* returned after the retry passes has at least as many FILLED fields as the
\* initial report.
C25_RetryNeverLosesGround ==
    /\ [][InRetryPhase =>
            \A f \in Fields :
                /\ Get(merged_confidences', f, 0) >= Get(merged_confidences, f, 0)
                /\ ~is_empty(merged_data[f]) => ~is_empty(merged_data'[f])
         ]_vars
    /\ [][ReturnsAfterRetry => report'.filled_fields >= report.filled_fields]_vars

\* C25 witness: a flagged field with a non-empty value took a retry's value
\* at a higher confidence, and the next retry's non-empty value at a lower
\* confidence was turned down.
C25_Witness ==
    /\ pc = "retry"
    /\ retry_calls = 2
    /\ \E f \in Range(flagged_fields) :
          /\ ~is_empty(report.field_results[f].value)
          /\ ~is_empty(merged_data[f])
          /\ merged_data[f] # report.field_results[f].value
          /\ merged_confidences[f] > report.field_results[f].confidence
          /\ ~is_empty(extracted[f])
          /\ extracted[f] # merged_data[f]
          /\ confidences[f] < merged_confidences[f]

\* C26: the report returned after the retry passes has a quality_score
\* greater than or equal to that of the initial report.
C26_RetryNeverLowersQuality ==
    [][ReturnsAfterRetry =>
          RatGeq(quality_score(report'), quality_score(report))]_vars

\* The retry call of this step answers field f with a non-empty value and a
\* confidence above 0.
AnswersField(f) ==
    /\ f \in DOMAIN extracted'
    /\ ~is_empty(extracted'[f])
    /\ Get(confidences', f, 0) > 0

\* C27: a field that the initial assessment found UNFILLED and that is still
\* empty takes the value of the first retry call that answers it with a
\* non-empty value and a confidence above 0.
C27_UnfilledTakesFirstAnswer ==
    [][IsRetryCall =>
          \A f \in Range(flagged_fields) :
              (/\ report.field_results[f].status = UNFILLED
               /\ is_empty(merged_data[f])
               /\ AnswersField(f))
              => /\ merged_data'[f] = extracted'[f]
                 /\ merged_confidences'[f] = confidences'[f]
      ]_vars

\* C29: in a retry attempt a field changes between INVALID and
\* LOW_CONFIDENCE only by taking the retry's value at a strictly higher
\* confidence; and an INVALID field that the retry answers with a valid value
\* at a confidence not above the stored one stays INVALID with its value.
C29_StatusChangesOnlyByAcceptedUpdate ==
    [][IsRetryCall =>
          \A f \in Fields :
              /\ (/\ CurrentStatus(f) \in {INVALID, LOW_CONFIDENCE}
                  /\ CurrentStatus(f)' \in {INVALID, LOW_CONFIDENCE}
                  /\ CurrentStatus(f)' # CurrentStatus(f))
                 => /\ f \in Range(flagged_fields)
                    /\ merged_data'[f] = extracted'[f]
                    /\ merged_confidences'[f] = confidences'[f]
                    /\ merged_confidences'[f] > merged_confidences[f]
              /\ (/\ CurrentStatus(f) = INVALID
                  /\ f \in DOMAIN extracted'
                  /\ ~is_empty(extracted'[f])
                  /\ ValidTable[Get(metadata_map, f, NoMetadata).field_type][extracted'[f]]
                  /\ Get(confidences', f, 0) <= merged_confidences[f])
                 => /\ merged_data'[f] = merged_data[f]
                    /\ merged_confidences'[f] = merged_confidences[f]
                    /\ CurrentStatus(f)' = INVALID
      ]_vars

\* C29 witness: a field the initial assessment found LOW_CONFIDENCE is
\* INVALID after the first retry, whose value it took at a higher
\* confidence; the second retry answered it with a valid value at the same
\* confidence and it kept its value.
C29_Witness ==
    /\ pc = "retry"
    /\ retry_calls = 2
    /\ \E f \in Range(flagged_fields) :
          /\ report.field_results[f].status = LOW_CONFIDENCE
          /\ CurrentStatus(f) = INVALID
          /\ merged_confidences[f] > report.field_results[f].confidence
          /\ merged_data[f] # report.field_results[f].value
          /\ extracted[f] = report.field_results[f].value
          /\ confidences[f] = merged_confidences[f]
          /\ merged_data[f] # extracted[f]

\* ================================================= run_agentic_pipeline
\* The variables of extract_document, which the caller's steps before the
\* call and the separate function calls leave alone.
engine == <<pages, max_retry_attempts, pc, all_extractions, all_confidences,
            merged_data, merged_confidences, report, flagged_fields, attempt,
            focused_schema, retry_image, extracted, confidences, call_failed,
            initial_calls, retry_calls, all_failed>>

\* extract_document has not been called.
EngineIdle ==
    /\ pages = 0
    /\ max_retry_attempts = DefaultMaxRetryAttempts
    /\ pc = "idle"
    /\ all_extractions = <<>>
    /\ all_confidences = <<>>
    /\ merged_data = EmptyDict
    /\ merged_confidences = EmptyDict
    /\ report = ExtractionReport
    /\ flagged_fields = <<>>
    /\ attempt = 0
    /\ focused_schema = <<>>
    /\ retry_image = 0
    /\ extracted = EmptyDict
    /\ confidences = EmptyDict
    /\ call_failed = <<>>
    /\ initial_calls = 0
    /\ retry_calls = 0
    /\ all_failed = TRUE

\* os.environ.get("OPENAI_API_KEY"): unset (None), set to the empty string,
\* or set to a key.
Unset == "<unset>"
EnvKeys == {Unset, "", "sk-key"}

\* Some keys of MORTGAGE_DOC_TYPES, and what classify_document may answer.
DocTypes == {"payslips", "photo_id"}
NoOverride == "<none>"

\* The states in which run_agentic_pipeline is entered. client_key is the key
\* the module-level client was built with when mortgage_core was imported
\* (OpenAI(api_key=None) raises, so the import succeeded with a string);
\* api_key is the environment variable when the pipeline reads it.
PipelineInit ==
    /\ EngineIdle
    /\ call = NoCall
    /\ pipeline \in
         [pc : {"start"},
          agentic_available : BOOLEAN,
          client_key : EnvKeys \ {Unset},
          api_key : EnvKeys,
          override_doc_type_id : DocTypes \cup {NoOverride},
          pages : 0..MaxPages,
          doc_type_id : {"unknown"},
          vision_calls : {0}]

\* run_agentic_pipeline: the agentic modules could not be imported and the
\* standard pipeline runs instead.
FallBackToFullPipeline ==
    /\ pipeline.pc = "start"
    /\ ~pipeline.agentic_available
    /\ pipeline' = [pipeline EXCEPT !.pc = "full_pipeline"]
    /\ UNCHANGED <<engine, call>>

\* run_agentic_pipeline: load_document_as_images(path).
LoadDocument ==
    /\ pipeline.pc = "start"
    /\ pipeline.agentic_available
    /\ pipeline' = [pipeline EXCEPT !.pc = "loaded"]
    /\ UNCHANGED <<engine, call>>

\* run_agentic_pipeline: the caller selected the document type.
UseOverride ==
    /\ pipeline.pc = "loaded"
    /\ pipeline.override_doc_type_id # NoOverride
    /\ pipeline' = [pipeline EXCEPT !.doc_type_id = pipeline.override_doc_type_id,
                                    !.pc = "classified"]
    /\ UNCHANGED <<engine, call>>

\* run_agentic_pipeline: classify_document(pages) reads pages[0] and sends it
\* to the vision model through the module-level client; the call raises
\* (always so with an empty key) or answers a document type.
ClassifyDocument ==
    /\ pipeline.pc = "loaded"
    /\ pipeline.override_doc_type_id = NoOverride
    /\ IF pipeline.pages = 0
       THEN pipeline' = [pipeline EXCEPT !.pc = "raised_index_error"]
       ELSE \/ pipeline' = [pipeline EXCEPT !.vision_calls = @ + 1,
                                            !.pc = "raised_api_error"]
            \/ /\ pipeline.client_key # ""
               /\ \E d \in DocTypes \cup {"unknown"} :
                     pipeline' = [pipeline EXCEPT !.vision_calls = @ + 1,
                                                  !.doc_type_id = d,
                                                  !.pc = "classified"]
    /\ UNCHANGED <<engine, call>>

\* run_agentic_pipeline: the schema is loaded and the metadata map built.
LoadSchema ==
    /\ pipeline.pc = "classified"
    /\ pipeline' = [pipeline EXCEPT !.pc = "schema_loaded"]
    /\ UNCHANGED <<engine, call>>

\* run_agentic_pipeline: api_key = os.environ.get("OPENAI_API_KEY");
\* if not api_key: raise RuntimeError. Otherwise the extractor, the assessor
\* and the agent are built and extract_document is called.
CheckCredential ==
    /\ pipeline.pc = "schema_loaded"
    /\ pipeline' = [pipeline EXCEPT !.pc =
                       IF pipeline.api_key \in {Unset, ""}
                       THEN "raised_no_key"
                       ELSE "extract_document"]
    /\ UNCHANGED <<engine, call>>

PipelineNext ==
    \/ FallBackToFullPipeline
    \/ LoadDocument
    \/ UseOverride
    \/ ClassifyDocument
    \/ LoadSchema
    \/ CheckCredential

PipelineSpec == PipelineInit /\ [][PipelineNext]_vars

\* C11: when OPENAI_API_KEY is missing, run_agentic_pipeline aborts with a
\* hard failure before any call to the vision model is issued for that run,
\* and no extraction, merge or assessment step runs.
C11_AbortsBeforeAnyVisionCall ==
    /\ pipeline.pc = "raised_no_key" => pipeline.vision_calls = 0
    /\ pipeline.api_key \in {Unset, ""} => pipeline.pc # "extract_document"

\* ================================================ calls of assess_field
\* The result slot of a call that has not returned.
NoResult == [status |-> "<pending>"]

\* The confidences handed to assess_field (hundredths): around each threshold.
AssessConfs == {0, 39, 40, 59, 60, 79, 80, 100}

\* The metadata handed to assess_field: None, or a FieldMetadata of type
\* TEXT or CURRENCY with a threshold below, at or above the default.
MetadataChoices ==
    {NoMetadata} \cup
    [name : {"field"},
     field_type : {"text", "currency"},
     required : BOOLEAN,
     min_confidence : {40, 60, 80}]

\* A caller is about to call FieldAssessor().assess_field(name, value,
\* confidence, metadata).
AssessFieldInit ==
    /\ EngineIdle
    /\ pipeline = NoPipeline
    /\ call \in [op : {"assess_field"},
                 value : AllValues,
                 confidence : AssessConfs,
                 metadata : MetadataChoices,
                 returned : {FALSE},
                 result : {NoResult}]

\* The call of assess_field returns its FieldResult.
AssessFieldCall ==
    /\ call.op = "assess_field"
    /\ ~call.returned
    /\ call' = [call EXCEPT
                  !.returned = TRUE,
                  !.result = assess_field("field", call.value, call.confidence,
                                          call.metadata)]
    /\ UNCHANGED <<engine, pipeline>>

AssessFieldNext == AssessFieldCall

AssessFieldSpec == AssessFieldInit /\ [][AssessFieldNext]_vars

\* The strings that are empty for the Assessor, and the strings that are not
\* amounts of money, listed by hand.
EmptyStrings == {"", " "}
NotAnAmount == {"Alice", "abc"}

\* The threshold of a call: the metadata's when metadata is given, the
\* Assessor's configured default (0.6) otherwise.
ThresholdOf(c) ==
    IF c.metadata = NoMetadata THEN 60 ELSE c.metadata.min_confidence

FailsValidation(c) ==
    /\ c.metadata # NoMetadata
    /\ c.metadata.field_type = "currency"
    /\ c.value \in NotAnAmount

\* C14: assess_field assigns the status by precedence: an empty value is
\* UNFILLED whatever else holds; otherwise a value failing its type
\* validation is INVALID even with a confidence below the threshold;
\* otherwise a confidence below the threshold gives LOW_CONFIDENCE;
\* otherwise FILLED.
C14_StatusPrecedence ==
    (call.op = "assess_field" /\ call.returned) =>
        call.result.status =
            IF call.value \in EmptyStrings THEN UNFILLED
            ELSE IF FailsValidation(call) THEN INVALID
            ELSE IF call.confidence < ThresholdOf(call) THEN LOW_CONFIDENCE
            ELSE FILLED

\* C14 witness: a non-empty value that is no amount, assessed as CURRENCY
\* with a confidence below the threshold, came back INVALID; the case where
\* both flags apply.
C14_Witness ==
    /\ call.op = "assess_field"
    /\ call.returned
    /\ call.value = "abc"
    /\ call.metadata # NoMetadata
    /\ call.metadata.field_type = "currency"
    /\ call.confidence < call.metadata.min_confidence
    /\ call.result.status = INVALID

\* C15: the threshold is metadata.min_confidence when metadata is given and
\* 0.6 otherwise; a non-empty valid value is FILLED exactly when its
\* confidence is at least the threshold and LOW_CONFIDENCE when below; a
\* field assessed without metadata is never INVALID.
C15_ThresholdAndNoMetadata ==
    (call.op = "assess_field" /\ call.returned) =>
        /\ (call.value \notin EmptyStrings /\ ~FailsValidation(call)) =>
              /\ (call.result.status = FILLED) =
                     (call.confidence >= ThresholdOf(call))
              /\ (call.result.status = LOW_CONFIDENCE) =
                     (call.confidence < ThresholdOf(call))
        /\ call.metadata = NoMetadata => call.result.status # INVALID

\* C15 witness: a valid value with confidence 0.6 and metadata asking for
\* 0.8 came back LOW_CONFIDENCE, although 0.6 reaches the default threshold.
C15_Witness ==
    /\ call.op = "assess_field"
    /\ call.returned
    /\ call.value = "100"
    /\ call.confidence = 60
    /\ call.metadata # NoMetadata
    /\ call.metadata.min_confidence = 80
    /\ call.result.status = LOW_CONFIDENCE

\* ============================================ calls of assess_extraction
\* The keys assess_extraction skips.
ReservedKeys == {"doc_type_id", "page_count"}

\* The extracted_data dicts handed to assess_extraction, by their key order.
KeyOrders ==
    {<<>>, <<"name">>, <<"name", "amount">>, <<"amount", "name">>,
     <<"doc_type_id", "name", "amount">>, <<"page_count", "name">>}

\* The values extracted_data may hold for a key.
DataValues(k) ==
    IF k \in ReservedKeys THEN {"", "100"}
    ELSE {"", " ", "Alice", "100", "abc"}

DataDicts(keys) ==
    {d \in [Range(keys) -> AllValues] : \A k \in Range(keys) : d[k] \in DataValues(k)}

\* The confidence_scores handed to assess_extraction: a score for some of
\* the fields.
ScoreDicts(keys) ==
    UNION {[S -> {0, 59, 60, 100}] : S \in SUBSET (Range(keys) \ ReservedKeys)}

\* metadata_map: None, or the map create_metadata_from_schema_hints builds.
MetadataMaps(keys) == {EmptyDict, create_metadata_from_schema_hints(keys)}

\* A caller is about to call FieldAssessor().assess_extraction(
\* extracted_data, confidence_scores, metadata_map).
AssessExtractionInit ==
    /\ EngineIdle
    /\ pipeline = NoPipeline
    /\ \E keys \in KeyOrders :
          call \in [op : {"assess_extraction"},
                    keys : {keys},
                    extracted_data : DataDicts(keys),
                    confidence_scores : ScoreDicts(keys),
                    metadata_map : MetadataMaps(keys),
                    returned : {FALSE},
                    result : {NoResult}]

\* The call of assess_extraction returns its ExtractionReport.
AssessExtractionCall ==
    /\ call.op = "assess_extraction"
    /\ ~call.returned
    /\ call' = [call EXCEPT
                  !.returned = TRUE,
                  !.result = assess_extraction(call.keys, call.extracted_data,
                                               call.confidence_scores,
                                               call.metadata_map)]
    /\ UNCHANGED <<engine, pipeline>>

AssessExtractionNext == AssessExtractionCall

AssessExtractionSpec == AssessExtractionInit /\ [][AssessExtractionNext]_vars

\* The place of field f in the key order of a call.
PlaceIn(keys, f) == CHOOSE i \in DOMAIN keys : keys[i] = f

\* C16: in every report built by assess_extraction, flagged_field_names
\* holds exactly the fields whose status is not FILLED, each once, in the
\* order the fields were encountered, and the five status counts add up to
\* total_fields.
C16_FlaggedListAndCounts ==
    (call.op = "assess_extraction" /\ call.returned) =>
        LET r == call.result
            flagged == r.flagged_field_names
            notFilled == {f \in DOMAIN r.field_results :
                             r.field_results[f].status # FILLED}
        IN  /\ Range(flagged) = notFilled
            /\ Len(flagged) = Cardinality(notFilled)
            /\ \A i, j \in DOMAIN flagged :
                  i < j => PlaceIn(call.keys, flagged[i]) < PlaceIn(call.keys, flagged[j])
            /\ r.filled_fields + r.unfilled_fields + r.low_confidence_fields
                 + r.invalid_fields + r.needs_review_fields = r.total_fields
            /\ r.total_fields = Cardinality(DOMAIN r.field_results)
            /\ r.filled_fields = Cardinality(DOMAIN r.field_results \ notFilled)

\* C16 witness: a report over the data order (amount, name) flags amount
\* as INVALID and then name as LOW_CONFIDENCE.
C16_Witness ==
    /\ call.op = "assess_extraction"
    /\ call.returned
    /\ call.keys = <<"amount", "name">>
    /\ call.result.flagged_field_names = <<"amount", "name">>
    /\ call.result.field_results["amount"].status = INVALID
    /\ call.result.field_results["name"].status = LOW_CONFIDENCE
    /\ call.result.invalid_fields = 1
    /\ call.result.low_confidence_fields = 1

\* The fields of a call, in order: its keys without the skipped ones.
FieldOrder(keys) == SelectSeq(keys, LAMBDA k : k \notin ReservedKeys)

ReportTotals == {0, 1, 2, 3, 10}
AverageChoices == {Rat(0, 1), Rat(50, 1), Rat(90, 1), Rat(100, 1), Rat(170, 2)}

ReportsFor(total) ==
    {[ExtractionReport EXCEPT
         !.total_fields = total,
         !.filled_fields = f,
         !.invalid_fields = i,
         !.unfilled_fields = total - f - i,
         !.average_confidence = IF total = 0 THEN Rat(0, 1) ELSE a] :
       f \in 0..total, i \in 0..total, a \in AverageChoices}

Reports == UNION {{r \in ReportsFor(t) : r.unfilled_fields >= 0} : t \in ReportTotals}

\* A caller is about to call report.quality_score().
QualityScoreInit ==
    /\ EngineIdle
    /\ pipeline = NoPipeline
    /\ call \in [op : {"quality_score"},
                 report : Reports,
                 returned : {FALSE},
                 result : {Rat(0, 1)}]

\* The call of quality_score returns.
QualityScoreCall ==
    /\ call.op = "quality_score"
    /\ ~call.returned
    /\ call' = [call EXCEPT !.returned = TRUE,
                            !.result = quality_score(call.report)]
    /\ UNCHANGED <<engine, pipeline>>

QualityScoreNext == QualityScoreCall

QualityScoreSpec == QualityScoreInit /\ [][QualityScoreNext]_vars

\* C18: quality_score is 0.5 * (filled/total * 100) + 0.3 *
\* (average_confidence * 100) + 0.2 * ((total - invalid)/total * 100) when
\* total > 0 and 0 when total = 0; for total 10, filled 8, average confidence
\* 0.9 and invalid 1 it is 85. The equation is stated multiplied out by
\* 10 * total * (the denominator of the average).
C18_QualityScoreFormula ==
    (call.op = "quality_score" /\ call.returned) =>
        LET r == call.report
            q == call.result
            t == r.total_fields
            an == r.average_confidence.num
            ad == r.average_confidence.den
        IN  /\ q.den > 0
            /\ t = 0 => q.num = 0
            /\ t > 0 =>
                  q.num * (10 * t * ad) =
                      q.den * (500 * r.filled_fields * ad
                               + 3 * an * t
                               + 200 * (t - r.invalid_fields) * ad)
            /\ (/\ t = 10
                /\ r.filled_fields = 8
                /\ r.invalid_fields = 1
                /\ r.average_confidence = Rat(90, 1)) => q.num = 85 * q.den

\* C18 witness: quality_score returned 85 for the report with total 10,
\* filled 8, average confidence 0.9 and invalid 1.
C18_Witness ==
    /\ call.op = "quality_score"
    /\ call.returned
    /\ call.report.total_fields = 10
    /\ call.report.filled_fields = 8
    /\ call.report.invalid_fields = 1
    /\ call.report.average_confidence = Rat(90, 1)
    /\ call.result.num = 85 * call.result.den

\* ============================= extract_document on two-page documents
\* The confidences the vision model reports in these runs: 0.0, 0.9, 0.95.
ScenarioConfs == {0, 90, 95}

\* What a call for a page may return in these runs: the model answers every
\* key of the schema with a value and one of these confidences.
ScenarioOutcomes ==
    LET outcomes ==
          {[failed |-> FALSE,
            values |-> extract_fields_from_image(
                           [ok |-> TRUE, fields |-> f, confidence_scores |-> c],
                           SchemaKeys).values,
            confidences |-> extract_fields_from_image(
                           [ok |-> TRUE, fields |-> f, confidence_scores |-> c],
                           SchemaKeys).confidences] :
              f \in {d \in FieldDicts(Range(SchemaKeys)) :
                         DOMAIN d = Range(SchemaKeys)},
              c \in [Range(SchemaKeys) -> ScenarioConfs]}
    IN  IF outcomes = outcomes THEN outcomes ELSE outcomes

\* extract_document is called with two pages.
ScenarioInit == Init /\ pages = 2

\* One iteration of the page loop in these runs.
ScenarioExtractPage == ExtractPageFrom(ScenarioOutcomes)

ScenarioNext ==
    \/ ScenarioExtractPage
    \/ AssessMerged
    \/ EnterRetry
    \/ ReturnWithoutRetry
    \/ RetryAttempt
    \/ ReassessAndReturn

ScenarioSpec == ScenarioInit /\ [][ScenarioNext]_vars

\* The two pages of the scenario, and the result expected of them.
ScenarioPages ==
    /\ all_extractions = <<[name |-> "Alice", amount |-> ""],
                           [name |-> "", amount |-> "100"]>>
    /\ all_confidences = <<[name |-> 90, amount |-> 0],
                           [name |-> 0, amount |-> 95]>>

ScenarioMerged ==
    /\ merged_data = [name |-> "Alice", amount |-> "100"]
    /\ merged_confidences = [name |-> 90, amount |-> 95]

ScenarioReport(r) ==
    /\ r.total_fields = 2
    /\ r.filled_fields = 2
    /\ r.flagged_field_names = <<>>
    /\ completion_rate(r) = 10000
    /\ r.field_results["name"].status = FILLED
    /\ r.field_results["amount"].status = FILLED

\* C20: for the two-page document whose page 1 gives name "Alice" (0.9) and
\* an empty amount (0.0) and whose page 2 gives an empty name (0.0) and
\* amount "100" (0.95), with amount declared a currency, extract_document
\* merges to {name: "Alice", amount: "100"} with confidences {0.9, 0.95},
\* builds a report with 2 filled and 0 flagged fields and completion rate
\* 100, and returns them without a retry call.
C20_EndToEndScenario ==
    /\ []((pc = "merged" /\ ScenarioPages) => ScenarioMerged)
    /\ [][(pc = "merged" /\ ScenarioMerged) =>
             /\ pc' = "assessed"
             /\ ScenarioReport(report')
             /\ ScenarioMerged'
         ]_vars
    /\ [][(pc = "assessed" /\ ScenarioMerged /\ ScenarioReport(report)) =>
             /\ pc' = "done"
             /\ ScenarioMerged'
             /\ report' = report
             /\ retry_calls = 0
             /\ retry_calls' = 0
         ]_vars

\* C20 witness: a two-page run with three attempts allowed has returned the
\* scenario's data, confidences and report after two calls and no retry.
C20_Witness ==
    /\ pc = "done"
    /\ pages = 2
    /\ max_retry_attempts = 3
    /\ ScenarioMerged
    /\ ScenarioReport(report)
    /\ initial_calls = 2
    /\ retry_calls = 0

\* The run has returned the scenario's result.
ScenarioReturned ==
    pc = "done" /\ ScenarioMerged /\ ScenarioReport(report)

\* C21 as stated: in the end-to-end scenario (both fields FILLED and valid,
\* final confidences 0.9 and 0.95) the final report's quality_score is 100.
C21_ScenarioQualityIs100 ==
    ScenarioReturned => quality_score(report) = Rat(100, 1)

\* C21 as amended: in the end-to-end scenario the final report's average
\* confidence is 0.925 and its quality_score is
\* 100 * 0.5 + 92.5 * 0.3 + 100 * 0.2 = 97.75.
C21_ScenarioQualityIs9775 ==
    ScenarioReturned =>
        /\ report.average_confidence = Rat(185, 2)
        /\ report.invalid_fields = 0
        /\ quality_score(report) = Rat(391, 4)

\* C21 witness: the scenario's run has returned, after two calls and no
\* retry, a report whose quality_score is 97.75.
C21_Witness ==
    /\ ScenarioReturned
    /\ initial_calls = 2
    /\ retry_calls = 0
    /\ report.field_results["name"].confidence = 90
    /\ report.field_results["amount"].confidence = 95
    /\ quality_score(report) = Rat(391, 4)

\* ================== extract_document on other schemas, one page, M = 2
\* The schemas of these runs, by key order: with and without the keys
\* doc_type_id (every schema load_schema_for_doc_type returns has it) and
\* page_count.
KeySchemas ==
    {<<"name", "amount">>, <<"doc_type_id", "name">>,
     <<"doc_type_id", "name", "amount">>, <<"name", "page_count">>}

\* A key the vision model may answer although no schema has it.
ExtraKey == "extra"
Absent == "<absent>"

\* What the vision model may answer for one key: for a field, no value, an
\* empty one or "100", with no score, 0.3 or 0.7; for another key, nothing,
\* or "100" with 0.7.
AnswersFor(k) ==
    IF k \in {"name", "amount"}
    THEN [v : {Absent, "", "100"}, c : {-1, 30, 70}]
    ELSE {[v |-> Absent, c |-> -1], [v |-> "100", c |-> 70]}

\* The responses of the vision model in these runs: it raises, or answers
\* some of the keys of the schema and possibly the extra key.
KeyResponses(keys) ==
    LET K == Range(keys) \cup {ExtraKey}
        all == UNION {AnswersFor(k) : k \in K}
    IN  {[ok |-> FALSE, fields |-> EmptyDict, confidence_scores |-> EmptyDict]}
        \cup
        {[ok |-> TRUE,
          fields |-> [k \in {x \in K : o[x].v # Absent} |-> o[k].v],
          confidence_scores |-> [k \in {x \in K : o[x].c # -1} |-> o[k].c]] :
            o \in {a \in [K -> all] : \A k \in K : a[k] \in AnswersFor(k)}}

\* dict.items() of the merged data: the schema's keys in schema order, then
\* any other key.
RECURSIVE SeqOf(_)
SeqOf(S) ==
    IF S = {} THEN <<>>
    ELSE LET x == CHOOSE y \in S : TRUE IN <<x>> \o SeqOf(S \ {x})

ItemsOrder(keys, data) ==
    SelectSeq(keys, LAMBDA k : k \in DOMAIN data) \o SeqOf(DOMAIN data \ Range(keys))

\* extract_document(pages=[page], schema, metadata_map) is called on an
\* AgenticOCR with max_retry_attempts = 2; metadata_map is None or the map
\* run_agentic_pipeline builds.
KeysInit ==
    /\ EngineIdle
    /\ pipeline = NoPipeline
    /\ \E keys \in KeySchemas :
          call \in [op : {"extract_document"},
                    keys : {keys},
                    metadata_map : MetadataMaps(keys),
                    response : KeyResponses(keys),
                    stage : {"start"},
                    data : {EmptyDict},
                    confidences : {EmptyDict},
                    report : {ExtractionReport},
                    retry_calls : {0}]

\* extract_document, passes 1 and 2: the page is extracted, the result merged
\* and assessed.
KeysFirstPasses ==
    /\ call.op = "extract_document"
    /\ call.stage = "start"
    /\ LET r == extract_fields_from_image(call.response, call.keys)
           data == merge_extractions(<<r.values>>, call.keys)
           confs == merge_confidences(<<r.confidences>>)
       IN  call' = [call EXCEPT
                      !.stage = "assessed",
                      !.data = data,
                      !.confidences = confs,
                      !.report = assess_extraction(ItemsOrder(call.keys, data),
                                                   data, confs, call.metadata_map)]
    /\ UNCHANGED <<engine, pipeline>>

\* extract_document, pass 3 with its single attempt, and the re-assessment.
KeysRetryPass ==
    /\ call.op = "extract_document"
    /\ call.stage = "assessed"
    /\ call.report.flagged_field_names # <<>>
    /\ LET flagged == call.report.flagged_field_names
           fs == focused_schema_of(call.keys, flagged)
       IN  \E resp \in KeyResponses(call.keys) :
             LET r == extract_fields_from_image(resp, fs)
                 u == IF fs = <<>>
                      THEN [data |-> call.data, confidences |-> call.confidences]
                      ELSE RetryUpdate(call.data, call.confidences, flagged,
                                       r.values, r.confidences)
             IN  call' = [call EXCEPT
                            !.stage = "done",
                            !.response = resp,
                            !.data = u.data,
                            !.confidences = u.confidences,
                            !.retry_calls = IF fs = <<>> THEN 0 ELSE 1,
                            !.report = assess_extraction(
                                           ItemsOrder(call.keys, u.data),
                                           u.data, u.confidences,
                                           call.metadata_map)]
    /\ UNCHANGED <<engine, pipeline>>

\* extract_document: nothing is flagged, the result is returned.
KeysReturn ==
    /\ call.op = "extract_document"
    /\ call.stage = "assessed"
    /\ call.report.flagged_field_names = <<>>
    /\ call' = [call EXCEPT !.stage = "done"]
    /\ UNCHANGED <<engine, pipeline>>

KeysNext ==
    \/ KeysFirstPasses
    \/ KeysRetryPass
    \/ KeysReturn

KeysSpec == KeysInit /\ [][KeysNext]_vars

\* The run has assessed its data at least once.
KeysAssessed == call.op = "extract_document" /\ call.stage \in {"assessed", "done"}

\* C13 as stated: after every assessment in extract_document, field_results
\* has exactly one FieldResult for every key of the schema other than
\* doc_type_id, and no other key, whatever keys the vision model returned.
C13_ResultKeysAreSchemaFields ==
    KeysAssessed =>
        DOMAIN call.report.field_results = Range(call.keys) \ {"doc_type_id"}

\* C13 as amended: after every assessment in extract_document, field_results
\* has exactly one FieldResult, under its own name, for every key of the
\* schema other than doc_type_id and page_count, and no other key, whatever
\* keys the vision model returned.
C13_ResultKeysAreAssessedSchemaFields ==
    KeysAssessed =>
        /\ DOMAIN call.report.field_results =
               Range(call.keys) \ {"doc_type_id", "page_count"}
        /\ \A f \in DOMAIN call.report.field_results :
               call.report.field_results[f].name = f
        /\ call.report.total_fields =
               Cardinality(Range(call.keys) \ {"doc_type_id", "page_count"})
        /\ DOMAIN call.data = Range(call.keys)

\* C13 witness: the schema has doc_type_id, name and amount; the retry
\* response answered doc_type_id and the extra key and left out a schema
\* field; the report after the retry has exactly name and amount.
C13_Witness ==
    /\ call.op = "extract_document"
    /\ call.stage = "done"
    /\ call.retry_calls = 1
    /\ call.keys = <<"doc_type_id", "name", "amount">>
    /\ call.response.ok
    /\ {ExtraKey, "doc_type_id"} \subseteq DOMAIN call.response.fields
    /\ "amount" \notin DOMAIN call.response.fields
    /\ DOMAIN call.report.field_results = {"name", "amount"}

\* C28: in every result extract_document returns, confidence_scores has an
\* entry for exactly the keys of extracted_data, and these are exactly the
\* keys of the schema: no key the vision model left out is missing, and no
\* key it added is in either map.
C28_ResultMapsHaveSchemaKeys ==
    (call.op = "extract_document" /\ call.stage = "done") =>
        /\ DOMAIN call.data = Range(call.keys)
        /\ DOMAIN call.confidences = DOMAIN call.data

\* ============ two calls of extract_document on one AgenticOCR, interleaved
\* The two calls in progress, one per document.
Runs == {"a", "b"}

\* The answers of the vision model in these runs: the call raises, or every
\* key comes back with confidence 0.0 or 0.7 and the amount, if asked, "100".
ConcurrentOutcomes(ks) ==
    {o \in OutcomeTable[ks] :
        \/ o.failed
        \/ \A k \in ks : /\ o.confidences[k] \in {0, 70}
                         /\ k = "amount" => o.values[k] = "100"}

\* The local variables of a call of extract_document with n pages, at its
\* entry. extract_document and _retry_flagged_fields keep all their working
\* data in locals; self is only read.
NewFrame(n) ==
    [pc |-> "extract",
     pages |-> n,
     all_extractions |-> <<>>,
     all_confidences |-> <<>>,
     merged_data |-> EmptyDict,
     merged_confidences |-> EmptyDict,
     report |-> ExtractionReport,
     flagged_fields |-> <<>>,
     attempt |-> 0]

\* Mutant of Frame: both calls work on the variables of the same call, as if
\* the working data were attributes of the instance.
Frame_OnInstance(c, r) == c.runs[CHOOSE q \in Runs : TRUE]

\* The local variables of call r.
Frame(c, r) == c.runs[r]

\* Call r stores its locals; answer is what the vision model returned to it
\* in this step, if it was called.
Store(c, r, frame, answer) ==
    [c EXCEPT !.runs[r] = frame,
              !.answers[r] = @ \o answer]

\* A call is past its first model call and has not returned.
InFlight(frame) ==
    /\ frame.pc # "done"
    /\ frame.pc = "extract" => frame.all_extractions # <<>>

\* The calls have been in flight at the same time.
Overlap(c) == c.overlapped \/ \A q \in Runs : InFlight(c.runs[q])

\* One AgenticOCR with max_retry_attempts 1 or 2; extract_document has been
\* called on it for two one-page documents.
ConcurrentInit ==
    /\ EngineIdle
    /\ pipeline = NoPipeline
    /\ call \in [op : {"concurrent"},
                 self : [max_retry_attempts : 1..2],
                 runs : [Runs -> {NewFrame(1)}],
                 answers : {[r \in Runs |-> <<>>]},
                 overlapped : {FALSE}]

\* Call r, one iteration of the loop over the pages, and the merge after
\* the last page.
RunExtractPage(r) ==
    /\ Frame(call, r).pc = "extract"
    /\ Len(Frame(call, r).all_extractions) < Frame(call, r).pages
    /\ \E o \in ConcurrentOutcomes(Range(SchemaKeys)) :
          LET l == Frame(call, r)
              ae == Append(l.all_extractions, o.values)
              ac == Append(l.all_confidences, o.confidences)
              last == Len(ae) = l.pages
              next == [l EXCEPT
                         !.all_extractions = ae,
                         !.all_confidences = ac,
                         !.merged_data =
                             IF last THEN merge_extractions(ae, SchemaKeys) ELSE @,
                         !.merged_confidences =
                             IF last THEN merge_confidences(ac) ELSE @,
                         !.pc = IF last THEN "merged" ELSE @]
              c == Store(call, r, next, <<o>>)
          IN  call' = [c EXCEPT !.overlapped = Overlap(c)]
    /\ UNCHANGED <<engine, pipeline>>

\* Call r, pass 2.
RunAssess(r) ==
    /\ Frame(call, r).pc = "merged"
    /\ LET l == Frame(call, r)
           next == [l EXCEPT
                      !.report = assess_extraction(SchemaKeys, l.merged_data,
                                     l.merged_confidences, metadata_map),
                      !.pc = "assessed"]
       IN  call' = Store(call, r, next, <<>>)
    /\ UNCHANGED <<engine, pipeline>>

\* Call r, the test before pass 3: the retry is entered, or the result is
\* returned.
RunBranch(r) ==
    /\ Frame(call, r).pc = "assessed"
    /\ LET l == Frame(call, r)
           next == IF /\ l.report.flagged_field_names # <<>>
                      /\ call.self.max_retry_attempts > 1
                   THEN [l EXCEPT !.flagged_fields = l.report.flagged_field_names,
                                  !.attempt = 2,
                                  !.pc = "retry"]
                   ELSE [l EXCEPT !.pc = "done"]
       IN  call' = Store(call, r, next, <<>>)
    /\ UNCHANGED <<engine, pipeline>>

\* Call r, one iteration of the loop of _retry_flagged_fields.
RunRetry(r) ==
    /\ Frame(call, r).pc = "retry"
    /\ Frame(call, r).attempt <= call.self.max_retry_attempts
    /\ LET l == Frame(call, r)
           fs == focused_schema_of(SchemaKeys, l.flagged_fields)
       IN  IF fs = <<>>
           THEN call' = Store(call, r, [l EXCEPT !.pc = "break"], <<>>)
           ELSE \E o \in ConcurrentOutcomes(Range(fs)) :
                  LET u == RetryUpdate(l.merged_data, l.merged_confidences,
                                       l.flagged_fields, o.values, o.confidences)
                      next == [l EXCEPT !.merged_data = u.data,
                                        !.merged_confidences = u.confidences,
                                        !.attempt = @ + 1]
                  IN  call' = Store(call, r, next, <<o>>)
    /\ UNCHANGED <<engine, pipeline>>

\* Call r, the re-assessment after the retry loop, and the return.
RunReassess(r) ==
    /\ Frame(call, r).pc \in {"retry", "break"}
    /\ Frame(call, r).pc = "retry" =>
           Frame(call, r).attempt > call.self.max_retry_attempts
    /\ LET l == Frame(call, r)
           next == [l EXCEPT
                      !.report = assess_extraction(SchemaKeys, l.merged_data,
                                     l.merged_confidences, metadata_map),
                      !.pc = "done"]
       IN  call' = Store(call, r, next, <<>>)
    /\ UNCHANGED <<engine, pipeline>>

ConcurrentNext ==
    \/ \E r \in Runs : RunExtractPage(r)
    \/ \E r \in Runs : RunAssess(r)
    \/ \E r \in Runs : RunBranch(r)
    \/ \E r \in Runs : RunRetry(r)
    \/ \E r \in Runs : RunReassess(r)

ConcurrentSpec == ConcurrentInit /\ [][ConcurrentNext]_vars

\* What a call returns: the data, the confidences and the report.
Returned(frame) ==
    [extracted_data |-> frame.merged_data,
     confidence_scores |-> frame.merged_confidences,
     assessment_report |-> frame.report]

\* The retry loop run on its own over the answers from the i-th on.
RECURSIVE RetryAlone(_, _, _, _, _)
RetryAlone(data, confs, flagged, answers, i) ==
    IF i > Len(answers) THEN [data |-> data, confidences |-> confs]
    ELSE LET u == RetryUpdate(data, confs, flagged,
                              answers[i].values, answers[i].confidences)
         IN  RetryAlone(u.data, u.confidences, flagged, answers, i + 1)

\* What extract_document returns for n pages when it runs alone on an
\* AgenticOCR with max_retry_attempts = M and the vision model gives these
\* answers, in this order.
ResultAlone(n, M, answers) ==
    LET data == merge_extractions([i \in 1..n |-> answers[i].values], SchemaKeys)
        confs == merge_confidences([i \in 1..n |-> answers[i].confidences])
        first == assess_extraction(SchemaKeys, data, confs, metadata_map)
    IN  IF first.flagged_field_names = <<>> \/ M <= 1
        THEN [extracted_data |-> data,
              confidence_scores |-> confs,
              assessment_report |-> first]
        ELSE LET u == RetryAlone(data, confs, first.flagged_field_names,
                                 answers, n + 1)
             IN  [extracted_data |-> u.data,
                  confidence_scores |-> u.confidences,
                  assessment_report |->
                      assess_extraction(SchemaKeys, u.data, u.confidences,
                                        metadata_map)]

\* C24: two calls of extract_document for different documents that
\* interleave on one AgenticOCR each return what the call returns alone for
\* the same pages and the same answers of the vision model to its own
\* calls, and the instance is as it was.
C24_InterleavedRunsAreIsolated ==
    call.op = "concurrent" =>
        /\ call.self.max_retry_attempts \in 1..2
        /\ \A r \in Runs :
              call.runs[r].pc = "done" =>
                  /\ Len(call.answers[r]) >= call.runs[r].pages
                  /\ Returned(call.runs[r]) =
                      ResultAlone(call.runs[r].pages,
                                  call.self.max_retry_attempts,
                                  call.answers[r])

\* C24 witness: both calls were in flight at the same time, each made a
\* retry call, and they returned different data.
C24_Witness ==
    /\ call.op = "concurrent"
    /\ call.overlapped
    /\ \A r \in Runs : /\ call.runs[r].pc = "done"
                       /\ Len(call.answers[r]) = 2
    /\ call.runs["a"].merged_data = [name |-> "Alice", amount |-> "100"]
    /\ call.runs["b"].merged_data = [name |-> "", amount |-> "100"]
    /\ call.runs["a"].report.filled_fields = 2
    /\ call.runs["b"].report.filled_fields = 1

\* ===================================== process_document (POST .../process)
\* The keys of the dict run_agentic_pipeline returns, and of the dict of
\* run_full_pipeline, which it returns when the agentic engine is missing.
AgenticResultKeys ==
    {"classification", "schema_used", "extracted_data", "confidence_scores",
     "assessment_report", "evaluation", "flagged_fields", "quality_metrics",
     "total_pages", "doc_type_id", "timestamp"}
FullResultKeys ==
    {"classification", "schema_used", "page_extractions", "extracted_initial",
     "extracted_final", "evaluation"}

\* What the call of run_agentic_pipeline does: it returns one of the two
\* dicts, or it raises.
PipelineOutcomes == {"returns_agentic", "returns_full", "raises"}

\* The status a document has before it is processed.
StatusBefore == {"uploaded", "completed", "failed"}

NoKeys == {}

\* The request: whether the document and an active template are found,
\* whether a template id is known, the document's status, and what the
\* pipeline is going to do.
HandlerInit ==
    /\ EngineIdle
    /\ pipeline = NoPipeline
    /\ call \in [op : {"process_document"},
                 pc : {"start"},
                 document_found : BOOLEAN,
                 template_id_given : BOOLEAN,
                 template_found : BOOLEAN,
                 use_evaluator : BOOLEAN,
                 outcome : PipelineOutcomes,
                 status : StatusBefore,
                 stored : {FALSE},
                 error_message : {FALSE},
                 pipeline_ran : {"no"},
                 result : {NoKeys},
                 http : {0}]

\* The queries before the try block: 404 without the document, 400 without
\* a template id, 404 without an active template.
LookUp ==
    /\ call.op = "process_document"
    /\ call.pc = "start"
    /\ call' = IF ~call.document_found
               THEN [call EXCEPT !.pc = "finished", !.http = 404]
               ELSE IF ~call.template_id_given
               THEN [call EXCEPT !.pc = "finished", !.http = 400]
               ELSE IF ~call.template_found
               THEN [call EXCEPT !.pc = "finished", !.http = 404]
               ELSE [call EXCEPT !.pc = "try"]
    /\ UNCHANGED <<engine, pipeline>>

\* document.status = "processing"; db.commit()
SetProcessing ==
    /\ call.op = "process_document"
    /\ call.pc = "try"
    /\ call' = [call EXCEPT !.status = "processing", !.pc = "run"]
    /\ UNCHANGED <<engine, pipeline>>

\* result = run_agentic_pipeline(...): it returns a dict or raises.
CallPipeline ==
    /\ call.op = "process_document"
    /\ call.pc = "run"
    /\ call' = CASE call.outcome = "returns_agentic" ->
                      [call EXCEPT !.pipeline_ran = "returned",
                                   !.result = AgenticResultKeys,
                                   !.pc = "update"]
                 [] call.outcome = "returns_full" ->
                      [call EXCEPT !.pipeline_ran = "returned",
                                   !.result = FullResultKeys,
                                   !.pc = "update"]
                 [] call.outcome = "raises" ->
                      [call EXCEPT !.pipeline_ran = "raised",
                                   !.pc = "except"]
    /\ UNCHANGED <<engine, pipeline>>

\* The rest of the try block: document.status = "completed" if
\* result["success"] else "failed", the result is stored, the usage count
\* and the audit log are written and the ProcessingResult is returned.
\* result["success"] raises KeyError when the dict has no such key.
UpdateDocument ==
    /\ call.op = "process_document"
    /\ call.pc = "update"
    /\ call' = IF "success" \in call.result
               THEN [call EXCEPT !.status = "completed",
                                 !.stored = TRUE,
                                 !.pc = "finished",
                                 !.http = 200]
               ELSE [call EXCEPT !.pc = "except"]
    /\ UNCHANGED <<engine, pipeline>>

\* except Exception: the document is marked failed and HTTP 500 is raised.
HandleException ==
    /\ call.op = "process_document"
    /\ call.pc = "except"
    /\ call' = [call EXCEPT !.status = "failed",
                            !.error_message = TRUE,
                            !.pc = "finished",
                            !.http = 500]
    /\ UNCHANGED <<engine, pipeline>>

HandlerNext ==
    \/ LookUp
    \/ SetProcessing
    \/ CallPipeline
    \/ UpdateDocument
    \/ HandleException

HandlerSpec == HandlerInit /\ [][HandlerNext]_vars

\* C30: in process_document the status is "processing" while the pipeline
\* runs and is not "processing" when the handler has finished; when
\* run_agentic_pipeline returned without raising the document ends
\* "completed" with the result stored, and it ends marked failed by the
\* handler only when the pipeline raised.
C30_CompletedWheneverPipelineReturns ==
    call.op = "process_document" =>
        /\ call.pc = "run" => call.status = "processing"
        /\ call.pc = "finished" =>
              /\ call.status # "processing"
              /\ call.pipeline_ran = "returned" =>
                     (call.status = "completed" /\ call.stored)
              /\ call.error_message => call.pipeline_ran = "raised"

====
